---- MODULE Spec2Model ----
(***************************************************************************)
(* Model resolution and ensemble inference pipeline of OpthalmoAI.         *)
(*                                                                         *)
(* The state is the OpthalmoAIModelLoader singleton                        *)
(* (backend/app/models/enhanced_model_loader.py), the environment its      *)
(* load_models() probes (artifacts on disk, the backbones' availability),  *)
(* the position of a running load_models() call and the last response     *)
(* handed to a caller.                                                     *)
(***************************************************************************)
EXTENDS Integers, Sequences, FiniteSets, TLC

VARIABLES
    env,               \* what load_models() finds: artifacts, backbones, cuda
    custom_model,      \* OpthalmoAIModelLoader.custom_model
    resnet50_model,    \* OpthalmoAIModelLoader.resnet50_model
    vgg16_model,       \* OpthalmoAIModelLoader.vgg16_model
    models_loaded,     \* OpthalmoAIModelLoader.models_loaded
    use_custom_model,  \* OpthalmoAIModelLoader.use_custom_model
    ensemble_mode,     \* OpthalmoAIModelLoader.ensemble_mode
    pc,                \* position of the running load_models() call
    loads,             \* number of load_models() calls started
    load_status,       \* how the last load_models() call ended
    created,           \* adapters instantiated by the last load_models() call
    response           \* response of the call made in the last step, if any

vars == <<env, custom_model, resnet50_model, vgg16_model, models_loaded,
          use_custom_model, ensemble_mode, pc, loads, load_status, created,
          response>>

loader == <<custom_model, resnet50_model, vgg16_model, models_loaded,
            use_custom_model, ensemble_mode>>

----------------------------------------------------------------------------
(* Bounds *)

\* load_models() calls in one process: the startup call and the re-loads
MaxLoads == 2

----------------------------------------------------------------------------
(* Values *)

\* Python's None for the three Optional adapter attributes
NONE == "None"

\* An adapter instance is represented by the weights it ended up with.
PRETRAINED == "pretrained"
FINETUNED  == "finetuned"
TRAINED    == "trained"

\* state of a file on disk
FileStates == {"absent", "corrupt", "valid"}

\* outcome of building a pretrained backbone: always, never, or depending on
\* the attempt (models.resnet50(pretrained=True) fetches the weights)
Environments ==
    [custom_artifact : FileStates,
     resnet50        : {"ok", "fail", "flaky"},
     vgg16           : {"ok", "fail"},
     cuda            : BOOLEAN,
     resnet_weights  : FileStates,
     vgg_weights     : FileStates]

\* the response slot before any call
NoResponse == [op |-> "none"]

----------------------------------------------------------------------------
(* Adapter factories *)

\* a constructor that takes the weights for loaded whenever a path is given
ResNet50Predictor_unchecked(model_path, cuda, weights_file) ==
    IF model_path THEN "finetuned" ELSE "pretrained"

\* ResNet50Predictor.__init__: the fine-tuned file is read only when a path
\* is given and cuda is available; a failed read is logged and the generic
\* pretrained weights stay.
ResNet50Predictor(model_path, cuda, weights_file) ==
    IF model_path /\ cuda /\ weights_file = "valid" THEN FINETUNED
    ELSE PRETRAINED

\* VGG16Predictor.__init__: as ResNet50Predictor.__init__
VGG16Predictor(model_path, cuda, weights_file) ==
    IF model_path /\ cuda /\ weights_file = "valid" THEN FINETUNED
    ELSE PRETRAINED

\* a resolver that never finds the custom artifact
is_trained_model_available_never(e) == FALSE

\* is_trained_model_available(): best_model.pth exists
is_trained_model_available(e) == e.custom_artifact # "absent"

\* load_custom_trained_model(): CustomTrainedModel.load_model() raises unless
\* the checkpoint can be loaded
CustomLoads == env.custom_artifact = "valid"

\* may this attempt to build the ResNet50 backbone succeed / fail
ResNetMaySucceed == env.resnet50 \in {"ok", "flaky"}
ResNetMayFail    == env.resnet50 \in {"fail", "flaky"}
VGGMaySucceed    == env.vgg16 = "ok"
VGGMayFail       == env.vgg16 = "fail"

----------------------------------------------------------------------------
(* OpthalmoAIModelLoader.load_models *)

\* OpthalmoAIModelLoader.__init__
Init ==
    /\ env \in Environments
    /\ custom_model = NONE
    /\ resnet50_model = NONE
    /\ vgg16_model = NONE
    /\ models_loaded = FALSE
    /\ use_custom_model = FALSE
    /\ ensemble_mode = TRUE
    /\ pc = "idle"
    /\ loads = 0
    /\ load_status = "none"
    /\ created = {}
    /\ response = NoResponse

\* load_model() / load_models() is entered: the startup call runs in the
\* environment of Init, a later call in whatever the disk holds by then
\* (cuda is a property of the host). Line 55 picks the branch.
load_models ==
    /\ pc = "idle"
    /\ loads < MaxLoads
    /\ \E e \in Environments :
          /\ e.cuda = env.cuda
          /\ loads = 0 => e = env
          /\ env' = e
          /\ pc' = IF is_trained_model_available(e) THEN "custom"
                   ELSE "ensemble_resnet"
    /\ loads' = loads + 1
    /\ load_status' = "running"
    /\ created' = {}
    /\ response' = NoResponse
    /\ UNCHANGED loader

\* _load_custom_trained_model, lines 72-85: the custom adapter is built and
\* its weights loaded
load_custom_ok ==
    /\ pc = "custom"
    /\ CustomLoads
    /\ custom_model' = TRAINED
    /\ use_custom_model' = TRUE
    /\ created' = created \cup {"custom"}
    /\ pc' = "loaded"
    /\ response' = NoResponse
    /\ UNCHANGED <<env, resnet50_model, vgg16_model, models_loaded,
                   ensemble_mode, loads, load_status>>

\* a custom path without its own handler: the error reaches load_models'
\* handler, which goes straight to the single-classifier fallback
load_custom_fail_unhandled ==
    /\ pc = "custom"
    /\ env.custom_artifact # "valid"
    /\ pc' = "final_fallback"
    /\ response' = [op |-> "none"]
    /\ UNCHANGED <<env, custom_model, resnet50_model, vgg16_model,
                   models_loaded, use_custom_model, ensemble_mode, loads,
                   load_status, created>>

\* _load_custom_trained_model, lines 90-93: any error falls back to the ensemble
load_custom_fail ==
    /\ pc = "custom"
    /\ ~CustomLoads
    /\ pc' = "ensemble_resnet"
    /\ response' = NoResponse
    /\ UNCHANGED <<env, loader, loads, load_status, created>>

\* _load_ensemble_models, lines 99-101
load_ensemble_resnet_ok ==
    /\ pc = "ensemble_resnet"
    /\ ResNetMaySucceed
    /\ resnet50_model' = ResNet50Predictor(TRUE, env.cuda, env.resnet_weights)
    /\ created' = created \cup {"resnet50"}
    /\ pc' = "ensemble_vgg"
    /\ response' = NoResponse
    /\ UNCHANGED <<env, custom_model, vgg16_model, models_loaded,
                   use_custom_model, ensemble_mode, loads, load_status>>

\* _load_ensemble_models, lines 100, 111-113: ResNet50 cannot be built
load_ensemble_resnet_fail ==
    /\ pc = "ensemble_resnet"
    /\ ResNetMayFail
    /\ pc' = "fallback"
    /\ response' = NoResponse
    /\ UNCHANGED <<env, loader, loads, load_status, created>>

\* _load_ensemble_models, lines 104-109
load_ensemble_vgg_ok ==
    /\ pc = "ensemble_vgg"
    /\ VGGMaySucceed
    /\ vgg16_model' = VGG16Predictor(TRUE, env.cuda, env.vgg_weights)
    /\ use_custom_model' = FALSE
    /\ created' = created \cup {"vgg16"}
    /\ pc' = "loaded"
    /\ response' = NoResponse
    /\ UNCHANGED <<env, custom_model, resnet50_model, models_loaded,
                   ensemble_mode, loads, load_status>>

\* an ensemble load that carries on without the VGG16 adapter
load_ensemble_vgg_fail_ignored ==
    /\ pc = "ensemble_vgg"
    /\ VGGMayFail
    /\ use_custom_model' = FALSE
    /\ pc' = "loaded"
    /\ response' = NoResponse
    /\ UNCHANGED <<env, custom_model, resnet50_model, vgg16_model,
                   models_loaded, ensemble_mode, loads, load_status, created>>

\* _load_ensemble_models, lines 105, 111-113: VGG16 cannot be built
load_ensemble_vgg_fail ==
    /\ pc = "ensemble_vgg"
    /\ VGGMayFail
    /\ pc' = "fallback"
    /\ response' = NoResponse
    /\ UNCHANGED <<env, loader, loads, load_status, created>>

\* _load_fallback_model, lines 117-121, called from _load_ensemble_models
\* (line 113, pc = "fallback") or from load_models' own handler (line 68,
\* pc = "final_fallback"). In the second case load_models returns right
\* after it, without passing line 62.
load_fallback_ok ==
    /\ pc \in {"fallback", "final_fallback"}
    /\ ResNetMaySucceed
    /\ resnet50_model' = ResNet50Predictor(FALSE, env.cuda, env.resnet_weights)
    /\ ensemble_mode' = FALSE
    /\ use_custom_model' = FALSE
    /\ created' = created \cup {"resnet50"}
    /\ pc' = IF pc = "fallback" THEN "loaded" ELSE "idle"
    /\ load_status' = IF pc = "fallback" THEN load_status ELSE "returned"
    /\ response' = NoResponse
    /\ UNCHANGED <<env, custom_model, vgg16_model, models_loaded, loads>>

\* a last fallback that logs its failure and returns instead of raising
load_fallback_fail_swallowed ==
    /\ pc \in {"fallback", "final_fallback"}
    /\ env.resnet50 \in {"fail", "flaky"}
    /\ pc' = IF pc = "fallback" THEN "loaded" ELSE "idle"
    /\ load_status' = IF pc = "fallback" THEN load_status ELSE "returned"
    /\ response' = [op |-> "none"]
    /\ UNCHANGED <<env, custom_model, resnet50_model, vgg16_model,
                   models_loaded, use_custom_model, ensemble_mode, loads,
                   created>>

\* _load_fallback_model, lines 123-125: RuntimeError("Failed to load any
\* models"). Raised under line 113 it reaches load_models' handler (lines
\* 65-68), which calls _load_fallback_model once more; raised there it
\* leaves load_models.
load_fallback_fail ==
    /\ pc \in {"fallback", "final_fallback"}
    /\ ResNetMayFail
    /\ pc' = IF pc = "fallback" THEN "final_fallback" ELSE "idle"
    /\ load_status' = IF pc = "fallback" THEN load_status ELSE "raised"
    /\ response' = NoResponse
    /\ UNCHANGED <<env, loader, loads, created>>

\* load_models, lines 62-63
load_models_return ==
    /\ pc = "loaded"
    /\ models_loaded' = TRUE
    /\ pc' = "idle"
    /\ load_status' = "returned"
    /\ response' = NoResponse
    /\ UNCHANGED <<env, custom_model, resnet50_model, vgg16_model,
                   use_custom_model, ensemble_mode, loads, created>>

----------------------------------------------------------------------------
(* Adapters: predict *)

\* the five ordinal classes
Stages == 0..4

\* Probabilities are counted in units of 1e-5, so a percentage with two
\* decimals is a whole number of hundredths of a percent.
One == 100000


\* What an adapter's forward pass does with an image: it raises (ERROR), or
\* it yields a softmax output, five non-negative values summing to One.
ERROR == <<>>

\* the named softmax outputs of the images below
NoDR     == <<100000, 0, 0, 0, 0>>
Moderate == <<10000, 5000, 71004, 10000, 3996>>
Severe   == <<0, 0, 30000, 70000, 0>>
Uniform  == <<20000, 20000, 20000, 20000, 20000>>

\* An image is what the forward pass of each adapter does with it.
Images ==
    { [custom |-> NoDR,     resnet50 |-> NoDR,     vgg16 |-> NoDR],
      [custom |-> Moderate, resnet50 |-> Moderate, vgg16 |-> Severe],
      [custom |-> Severe,   resnet50 |-> NoDR,     vgg16 |-> Severe],
      [custom |-> Uniform,  resnet50 |-> Uniform,  vgg16 |-> Moderate],
      [custom |-> ERROR,    resnet50 |-> ERROR,    vgg16 |-> Severe],
      [custom |-> Moderate, resnet50 |-> Severe,   vgg16 |-> ERROR],
      [custom |-> ERROR,    resnet50 |-> ERROR,    vgg16 |-> ERROR] }

\* softmax outputs whose percentages do not end on a hundredth
Thirds   == <<33333, 33333, 33334, 0, 0>>
ThirdsUp == <<33336, 33336, 33328, 0, 0>>

\* softmax outputs that lean to the late and to the early stages
LeanLate  == <<5000, 20000, 25000, 25000, 25000>>
LeanEarly == <<35000, 20000, 15000, 15000, 15000>>

\* the probabilities that are a whole number of quarters
Quarters == {0, 25000, 50000, 75000, 100000}

\* every softmax output made of quarters
GridDistributions ==
    { p \in { <<a, b, c, d, One - a - b - c - d>> : a, b, c, d \in Quarters } :
        p[5] >= 0 }

\* the softmax outputs the combiner is examined on
Distributions ==
    GridDistributions
    \cup {NoDR, Moderate, Severe, Uniform, Thirds, ThirdsUp, LeanLate, LeanEarly}

\* round(v * 100, 2) of a probability v given in units of 1e-5: hundredths
\* of a percent, ties to even as Python's round
Round2(raw) ==
    LET q == raw \div 10
        r == raw % 10
    IN  IF r < 5 THEN q
        ELSE IF r > 5 THEN q + 1
        ELSE IF q % 2 = 0 THEN q ELSE q + 1

\* torch.argmax(probabilities, dim=1).item(): the first index of the maximum
Argmax(probs) ==
    CHOOSE c \in Stages :
        /\ \A d \in Stages : probs[d + 1] <= probs[c + 1]
        /\ \A d \in Stages : d < c => probs[d + 1] < probs[c + 1]

\* ResNet50Predictor._get_follow_up_period
ResNet50FollowUp(predicted_class) ==
    CASE predicted_class = 0 -> 12
      [] predicted_class = 1 -> 12
      [] predicted_class = 2 -> 6
      [] predicted_class = 3 -> 3
      [] predicted_class = 4 -> 1
      [] OTHER -> 6

\* VGG16Predictor._get_follow_up_period
VGG16FollowUp(predicted_class) ==
    CASE predicted_class = 0 -> 12
      [] predicted_class = 1 -> 12
      [] predicted_class = 2 -> 6
      [] predicted_class = 3 -> 2
      [] predicted_class = 4 -> 1
      [] OTHER -> 6

\* CustomTrainedModel._get_follow_up_period
CustomFollowUp(predicted_class) ==
    CASE predicted_class = 0 -> 12
      [] predicted_class = 1 -> 12
      [] predicted_class = 2 -> 6
      [] predicted_class = 3 -> 2
      [] predicted_class = 4 -> 1
      [] OTHER -> 6

\* the follow-up table of the adapter called model_name
FollowUpOf(model_name, predicted_class) ==
    CASE model_name = "ResNet50" -> ResNet50FollowUp(predicted_class)
      [] model_name = "VGG16" -> VGG16FollowUp(predicted_class)
      [] OTHER -> CustomFollowUp(predicted_class)

\* ResNet50Predictor._get_recommendations
ResNet50Recommendations(predicted_class) ==
    CASE predicted_class = 0 ->
             <<"Continue regular eye exams",
               "Maintain good diabetes control",
               "Monitor blood sugar levels regularly">>
      [] predicted_class = 1 ->
             <<"Schedule follow-up in 12 months",
               "Optimize diabetes management",
               "Monitor blood pressure and cholesterol">>
      [] predicted_class = 2 ->
             <<"Schedule follow-up in 6-12 months",
               "Consider ophthalmologist referral",
               "Strict diabetes control recommended">>
      [] predicted_class = 3 ->
             <<"Urgent ophthalmologist referral needed",
               "Follow-up in 2-4 months",
               "Intensive diabetes management required">>
      [] predicted_class = 4 ->
             <<"Immediate ophthalmologist consultation required",
               "Consider laser therapy or surgery",
               "Monthly monitoring recommended">>
      [] OTHER -> <<"Consult healthcare provider">>

\* VGG16Predictor._get_recommendations
VGG16Recommendations(predicted_class) ==
    CASE predicted_class = 0 ->
             <<"Continue routine diabetic care",
               "Annual dilated eye examination",
               "Maintain optimal glycemic control">>
      [] predicted_class = 1 ->
             <<"Schedule ophthalmology follow-up in 12 months",
               "Optimize diabetes management with HbA1c < 7%",
               "Blood pressure control recommended">>
      [] predicted_class = 2 ->
             <<"Ophthalmology referral within 6 months",
               "Consider more frequent monitoring",
               "Strict glycemic and blood pressure control">>
      [] predicted_class = 3 ->
             <<"Urgent ophthalmology consultation within 1 month",
               "Consider pan-retinal photocoagulation",
               "Intensive diabetes management required">>
      [] predicted_class = 4 ->
             <<"Immediate ophthalmology referral (within 1-2 weeks)",
               "Vitreoretinal surgery evaluation may be needed",
               "Close monitoring with monthly follow-ups">>
      [] OTHER -> <<"Consult healthcare provider">>

\* CustomTrainedModel._get_recommendations
CustomRecommendations(predicted_class) ==
    CASE predicted_class = 0 ->
             <<"Continue regular diabetic care",
               "Annual dilated eye examination recommended",
               "Maintain optimal glycemic control">>
      [] predicted_class = 1 ->
             <<"Schedule ophthalmology follow-up in 12 months",
               "Optimize diabetes management with HbA1c < 7%",
               "Monitor blood pressure and lipid levels">>
      [] predicted_class = 2 ->
             <<"Ophthalmology referral within 6 months recommended",
               "Consider more frequent monitoring",
               "Strict glycemic and blood pressure control">>
      [] predicted_class = 3 ->
             <<"Urgent ophthalmology consultation within 1 month",
               "Consider pan-retinal photocoagulation",
               "Intensive diabetes management required">>
      [] predicted_class = 4 ->
             <<"Immediate ophthalmology referral (within 1-2 weeks)",
               "Vitreoretinal surgery evaluation may be needed",
               "Close monitoring with monthly follow-ups">>
      [] OTHER -> <<"Consult healthcare provider">>

\* the recommendation table of the adapter called model_name
RecommendationsOf(model_name, predicted_class) ==
    CASE model_name = "ResNet50" -> ResNet50Recommendations(predicted_class)
      [] model_name = "VGG16" -> VGG16Recommendations(predicted_class)
      [] OTHER -> CustomRecommendations(predicted_class)

\* ResNet50Predictor.predict / VGG16Predictor.predict /
\* CustomTrainedModel.predict: every exception of the forward pass is caught
\* and returned as an error dictionary; otherwise the result dictionary. The
\* recommendations are the adapter's own table.
AdapterPredict(model_name, outcome) ==
    IF outcome = ERROR
    THEN [error |-> TRUE, model_name |-> model_name]
    ELSE LET predicted_class == Argmax(outcome)
         IN  [error |-> FALSE,
              model_name |-> model_name,
              predicted_class |-> predicted_class,
              confidence |-> Round2(outcome[predicted_class + 1]),
              class_probabilities |-> [c \in Stages |-> Round2(outcome[c + 1])],
              recommendations |-> RecommendationsOf(model_name, predicted_class),
              has_recommendations |-> TRUE,
              requires_urgent_care |-> predicted_class >= 3,
              follow_up_months |-> FollowUpOf(model_name, predicted_class)]

----------------------------------------------------------------------------
(* OpthalmoAIModelLoader.predict *)

\* IEEE-754 doubles of the averaging, for the percentages the adapters of
\* this model return (hundredths of a percent): the pairs {a, b} for which
\* np.mean([a/100/100.0, b/100/100.0]) is the double one ulp below the one
\* nearest to the exact mean ...
MeanOneBelow ==
    { {400, 3000}, {400, 3333}, {400, 3500}, {500, 3500}, {1000, 3500},
      {1000, 7000}, {1000, 7100}, {1500, 3000}, {1500, 3333}, {2000, 7000},
      {2000, 7100}, {2500, 3333}, {3000, 3500}, {3333, 5000}, {3333, 7000},
      {3334, 7000}, {3500, 7000} }

\* ... and one ulp above it
MeanOneAbove ==
    { {0, 3334}, {400, 2000}, {500, 1000}, {1000, 2000}, {1500, 3334},
      {2000, 3334}, {3333, 3334}, {3334}, {3334, 7500}, {3334, 10000} }

\* the pairs whose mean lies halfway between two hundredths and for which
\* round(v * 100, 2) of the double goes up (it goes down for the others)
MidpointRoundsUp == { {3333, 3334} }

\* np.mean(prob_list) of two percentages given in hundredths (lines 234,
\* 239), as a number ordered as the doubles are: four times twice the exact
\* mean, moved by the ulp the double is off
FloatMean(a, b) ==
    4 * (a + b)
    + (IF {a, b} \in MeanOneBelow THEN -1
       ELSE IF {a, b} \in MeanOneAbove THEN 1 ELSE 0)

\* a rounding that reports the first adapter's percentage as the mean
MeanRound2_first_adapter(a, b) == a

\* np.mean of two percentages given in hundredths, then round(v * 100, 2)
MeanRound2(a, b) ==
    LET q == (a + b) \div 2
    IN  IF (a + b) % 2 = 0 THEN q
        ELSE IF {a, b} \in MidpointRoundsUp THEN q + 1 ELSE q

\* a combiner that takes the class the first adapter voted for
EnsembleArgmax_first_adapter(p1, p2) ==
    CHOOSE c \in Stages :
        /\ \A d \in Stages : p1[d] <= p1[c]
        /\ \A d \in Stages : d < c => p1[d] < p1[c]

\* max(averaged_probs, key=averaged_probs.get): the first class, in the
\* order the first prediction lists them, whose mean is the largest double
EnsembleArgmax(p1, p2) ==
    CHOOSE c \in Stages :
        /\ \A d \in Stages : FloatMean(p1[d], p2[d]) <= FloatMean(p1[c], p2[c])
        /\ \A d \in Stages :
              d < c => FloatMean(p1[d], p2[d]) < FloatMean(p1[c], p2[c])

\* min([...]) of two numbers
Min2(a, b) == IF a <= b THEN a ELSE b

\* a combiner that gives up as soon as one of its adapters fails
EnsemblePredictions_all_or_nothing(out_resnet, out_vgg) ==
    IF out_resnet = ERROR \/ out_vgg = ERROR THEN <<>>
    ELSE <<AdapterPredict("ResNet50", out_resnet),
           AdapterPredict("VGG16", out_vgg)>>

\* _ensemble_predict, lines 207-219: the successful predictions, in order.
\* The adapters that are set (and, for VGG16, ensemble_mode) are asked.
EnsemblePredictions(out_resnet, out_vgg) ==
    LET resnet_result == AdapterPredict("ResNet50", out_resnet)
        vgg_result    == AdapterPredict("VGG16", out_vgg)
        first  == IF resnet50_model # NONE /\ ~resnet_result.error
                  THEN <<resnet_result>> ELSE <<>>
        second == IF vgg16_model # NONE /\ ensemble_mode /\ ~vgg_result.error
                  THEN <<vgg_result>> ELSE <<>>
    IN  first \o second

\* _ensemble_predict, lines 228-265: the merge of two predictions
EnsembleMerge(pred1, pred2) ==
    LET p1 == pred1.class_probabilities
        p2 == pred2.class_probabilities
        predicted_class == EnsembleArgmax(p1, p2)
    IN  [error |-> FALSE,
         model_name |-> "ResNet50 + VGG16 Ensemble",
         predicted_class |-> predicted_class,
         confidence |-> MeanRound2(p1[predicted_class], p2[predicted_class]),
         class_probabilities |-> [c \in Stages |-> MeanRound2(p1[c], p2[c])],
         recommendations |-> <<>>,
         has_recommendations |-> FALSE,
         requires_urgent_care |-> predicted_class >= 3,
         follow_up_months |-> Min2(pred1.follow_up_months, pred2.follow_up_months)]

\* a combiner that answers "No DR" when no adapter succeeded
_ensemble_predict_default(out_resnet, out_vgg) ==
    LET predictions == EnsemblePredictions(out_resnet, out_vgg)
    IN  IF Len(predictions) = 0
        THEN AdapterPredict("Ensemble", NoDR)
        ELSE IF Len(predictions) = 1 THEN predictions[1]
        ELSE EnsembleMerge(predictions[1], predictions[2])

\* a combiner that averages a lone prediction with a uniform prior
_ensemble_predict_with_prior(out_resnet, out_vgg) ==
    LET predictions == EnsemblePredictions(out_resnet, out_vgg)
    IN  IF Len(predictions) = 0
        THEN [error |-> TRUE, model_name |-> "Ensemble", raised |-> TRUE]
        ELSE IF Len(predictions) = 1
        THEN EnsembleMerge(predictions[1], AdapterPredict("Prior", Uniform))
        ELSE EnsembleMerge(predictions[1], predictions[2])

\* _ensemble_predict: no prediction raises (reported here as an error
\* dictionary with raised set), one is returned as it is, two are merged
_ensemble_predict(out_resnet, out_vgg) ==
    LET predictions == EnsemblePredictions(out_resnet, out_vgg)
    IN  IF Len(predictions) = 0
        THEN [error |-> TRUE, model_name |-> "Ensemble", raised |-> TRUE]
        ELSE IF Len(predictions) = 1 THEN predictions[1]
        ELSE EnsembleMerge(predictions[1], predictions[2])

\* the adapters _ensemble_predict calls
EnsembleConsulted ==
    (IF resnet50_model # NONE THEN {"resnet50"} ELSE {})
    \cup (IF vgg16_model # NONE /\ ensemble_mode THEN {"vgg16"} ELSE {})

\* a rule that counts a confidence of exactly 70 as above the threshold
_get_risk_level_inclusive(stage, confidence) ==
    IF stage = 0 THEN "Low"
    ELSE IF stage \in {1, 2}
         THEN (IF confidence >= 7000 THEN "Moderate" ELSE "Low")
         ELSE "High"

\* a rule that calls stages 3 and 4 high risk only above the threshold
_get_risk_level_confidence_gated(stage, confidence) ==
    IF stage = 0 THEN "Low"
    ELSE IF confidence > 7000
         THEN (IF stage \in {1, 2} THEN "Moderate" ELSE "High")
         ELSE (IF stage \in {1, 2} THEN "Low" ELSE "Moderate")

\* _get_risk_level; confidence in hundredths of a percent
_get_risk_level(stage, confidence) ==
    IF stage = 0 THEN "Low"
    ELSE IF stage \in {1, 2}
         THEN (IF confidence > 7000 THEN "Moderate" ELSE "Low")
         ELSE "High"

\* _get_stage_description
_get_stage_description(stage) ==
    CASE stage = 0 -> "No Diabetic Retinopathy"
      [] stage = 1 -> "Mild Non-proliferative Diabetic Retinopathy"
      [] stage = 2 -> "Moderate Non-proliferative Diabetic Retinopathy"
      [] stage = 3 -> "Severe Non-proliferative Diabetic Retinopathy"
      [] stage = 4 -> "Proliferative Diabetic Retinopathy"
      [] OTHER -> "Unknown Stage"

\* _get_recommendations, lines 289-293
base_recommendations ==
    <<"Maintain optimal blood glucose control",
      "Monitor blood pressure and cholesterol levels",
      "Follow a healthy diet and exercise regularly">>

\* _get_recommendations, lines 295-316
stage_specific(stage) ==
    CASE stage = 0 -> <<"Continue regular eye exams annually">>
      [] stage = 1 ->
             <<"Schedule eye exams every 6-12 months",
               "Monitor for progression">>
      [] stage = 2 ->
             <<"Schedule eye exams every 3-6 months",
               "Consider consultation with retinal specialist",
               "Monitor for signs of progression">>
      [] stage = 3 ->
             <<"Urgent consultation with retinal specialist required",
               "Schedule eye exams every 2-4 months",
               "May require laser treatment">>
      [] stage = 4 ->
             <<"Immediate referral to retinal specialist required",
               "May require urgent treatment (laser or surgery)",
               "Monitor closely for complications">>
      [] OTHER -> <<>>

\* _get_recommendations: the loader's own table, with the urgent line put
\* first for high risk
_get_recommendations(stage, risk_level) ==
    LET recommendations == base_recommendations \o stage_specific(stage)
    IN  IF risk_level = "High"
        THEN <<"URGENT: Seek immediate ophthalmological consultation">>
             \o recommendations
        ELSE recommendations

\* AnalysisResult (schemas.py): stage is a DiabeticRetinopathyStage, and
\* confidence lies in [0, 100]; anything else fails validation
AnalysisResultValid(stage, confidence) ==
    /\ stage \in Stages
    /\ confidence >= 0
    /\ confidence <= 10000

\* predict, lines 163-170: the branch taken
UsesCustom == use_custom_model /\ custom_model # NONE

\* the adapters predict() dispatches to
ActiveAdapters == IF UsesCustom THEN {"custom"} ELSE EnsembleConsulted

\* predict, lines 163-170: the prediction dictionary
PredictionResult(out_custom, out_resnet, out_vgg) ==
    IF UsesCustom
    THEN AdapterPredict("Custom Trained OpthalmoAI", out_custom)
    ELSE _ensemble_predict(out_resnet, out_vgg)

\* predict, lines 175-199: the AnalysisResult built from the dictionary
AnalysisResult(prediction_result) ==
    LET predicted_class == prediction_result.predicted_class
        confidence == prediction_result.confidence
        risk_level == _get_risk_level(predicted_class, confidence)
    IN  [stage |-> predicted_class,
         stage_description |-> _get_stage_description(predicted_class),
         confidence |-> confidence,
         risk_level |-> risk_level,
         recommendations |->
             IF prediction_result.has_recommendations
             THEN prediction_result.recommendations
             ELSE _get_recommendations(predicted_class, risk_level),
         model_name |-> prediction_result.model_name,
         use_custom_model |-> use_custom_model,
         prediction_details |-> prediction_result]

\* the outcome of a predict() call that raised
Raised(error, consulted) ==
    [outcome |-> "raised", error |-> error, consulted |-> consulted]

\* the outcome of a predict() call that returned
Returned(result, consulted) ==
    [outcome |-> "returned", error |-> "", consulted |-> consulted,
     result |-> result]

\* a predict() without the readiness test of line 157
PredictCall_unguarded(image) ==
    LET prediction_result ==
            PredictionResult(image.custom, image.resnet50, image.vgg16)
        consulted == IF UsesCustom THEN {"custom"} ELSE EnsembleConsulted
    IN  IF prediction_result.error
        THEN Raised(IF UsesCustom THEN "Prediction failed"
                    ELSE "No successful predictions from any model",
                    consulted)
        ELSE Returned(AnalysisResult(prediction_result), consulted)

\* predict(image), the whole call; the image decides what each adapter's
\* forward pass does
PredictCall(image) ==
    LET prediction_result ==
            PredictionResult(image.custom, image.resnet50, image.vgg16)
        consulted == IF UsesCustom THEN {"custom"} ELSE EnsembleConsulted
    IN  IF ~models_loaded
        THEN Raised("Models not loaded", {})
        ELSE IF prediction_result.error
        THEN Raised(IF UsesCustom THEN "Prediction failed"
                    ELSE "No successful predictions from any model",
                    consulted)
        ELSE IF ~AnalysisResultValid(prediction_result.predicted_class,
                                     prediction_result.confidence)
        THEN Raised("ValidationError", consulted)
        ELSE Returned(AnalysisResult(prediction_result), consulted)

\* a predict() that marks the loader not ready when a request fails
predict_resetting ==
    /\ \E image \in Images :
          LET call == PredictCall(image)
          IN  /\ response' = [op |-> "predict", image |-> image, call |-> call]
              /\ models_loaded' = (models_loaded /\ call.outcome = "returned")
    /\ UNCHANGED <<env, custom_model, resnet50_model, vgg16_model,
                   use_custom_model, ensemble_mode, pc, loads, load_status,
                   created>>

\* a caller invokes model_loader.predict(image)
predict ==
    /\ \E image \in Images :
          response' = [op |-> "predict", image |-> image,
                       call |-> PredictCall(image)]
    /\ UNCHANGED <<env, loader, pc, loads, load_status, created>>

----------------------------------------------------------------------------
(* The serving layer: app/main.py, app/api/endpoints *)

\* lifespan (main.py lines 27-35): load_model() is called once, an exception
\* is logged and swallowed, and then the application serves requests
LifespanYielded == loads > 1 \/ (loads = 1 /\ pc = "idle")

\* the attributes an OpthalmoAIModelLoader has (__init__ and its methods)
LoaderAttributes ==
    {"custom_model", "resnet50_model", "vgg16_model", "device",
     "models_loaded", "use_custom_model", "ensemble_mode",
     "load_model", "load_models", "get_model_info", "predict"}

\* GET /health (health.py lines 13-23)
health_check ==
    /\ LifespanYielded
    /\ response' = [op |-> "health", status |-> "healthy",
                    model_loaded |-> models_loaded]
    /\ UNCHANGED <<env, loader, pc, loads, load_status, created>>

\* the response of POST /analyze
AnalysisResponse(http_status, success, served) ==
    [op |-> "analyze", http_status |-> http_status, success |-> success,
     served |-> served]

\* POST /analyze (analysis.py lines 78-82, 138-156): the readiness test
\* reads model_loader.model_loaded, which the loader does not have, so the
\* AttributeError ends in the handler of line 148; with the attribute the
\* request is refused with 503 until the model is loaded and predict() is
\* called after that, an exception of which ends in the same handler.
analyze_retinal_image ==
    /\ LifespanYielded
    /\ \E image \in Images :
            LET analysis_result == PredictCall(image)
            IN  response' =
                    IF "model_loaded" \notin LoaderAttributes
                    THEN AnalysisResponse(200, FALSE, FALSE)
                    ELSE IF ~models_loaded
                    THEN AnalysisResponse(503, FALSE, FALSE)
                    ELSE IF analysis_result.outcome = "raised"
                    THEN AnalysisResponse(200, FALSE, FALSE)
                    ELSE AnalysisResponse(200, TRUE, TRUE)
    /\ UNCHANGED <<env, loader, pc, loads, load_status, created>>

----------------------------------------------------------------------------
(* Inference on bounded inputs *)

\* The loader as the startup load_models() leaves it, with the environment
\* it ran in: custom mode, the ensemble of both backbones, and the
\* single-classifier fallback (VGG16 could not be built).
ReadyLoaders ==
    { [env |-> [custom_artifact |-> "valid", resnet50 |-> "ok",
                vgg16 |-> "ok", cuda |-> FALSE,
                resnet_weights |-> "absent", vgg_weights |-> "absent"],
       custom_model |-> TRAINED, resnet50_model |-> NONE,
       vgg16_model |-> NONE, use_custom_model |-> TRUE,
       ensemble_mode |-> TRUE, created |-> {"custom"}],
      [env |-> [custom_artifact |-> "absent", resnet50 |-> "ok",
                vgg16 |-> "ok", cuda |-> FALSE,
                resnet_weights |-> "absent", vgg_weights |-> "absent"],
       custom_model |-> NONE, resnet50_model |-> PRETRAINED,
       vgg16_model |-> PRETRAINED, use_custom_model |-> FALSE,
       ensemble_mode |-> TRUE, created |-> {"resnet50", "vgg16"}],
      [env |-> [custom_artifact |-> "absent", resnet50 |-> "ok",
                vgg16 |-> "fail", cuda |-> FALSE,
                resnet_weights |-> "absent", vgg_weights |-> "absent"],
       custom_model |-> NONE, resnet50_model |-> PRETRAINED,
       vgg16_model |-> NONE, use_custom_model |-> FALSE,
       ensemble_mode |-> FALSE, created |-> {"resnet50"}] }

\* the confidences AnalysisResult admits, in hundredths of a percent
Confidences == 0..(100 * 100)

\* The calls examined: predict(image) on an image on which the forward
\* passes give any of the examined softmax outputs, or raise, and
\* _get_risk_level(stage, confidence)
Requests ==
    { [op |-> "predict_request",
       image |-> [custom |-> out, resnet50 |-> out, vgg16 |-> out_vgg]] :
         out, out_vgg \in Distributions \cup {ERROR} }
    \cup { [op |-> "risk_request", stage |-> stage, confidence |-> confidence] :
             stage \in Stages, confidence \in Confidences }

\* the process after lifespan's startup load has returned, and a call that
\* is about to be made
ReadyInit ==
    /\ \E r \in ReadyLoaders :
          /\ env = r.env
          /\ custom_model = r.custom_model
          /\ resnet50_model = r.resnet50_model
          /\ vgg16_model = r.vgg16_model
          /\ use_custom_model = r.use_custom_model
          /\ ensemble_mode = r.ensemble_mode
          /\ created = r.created
    /\ models_loaded = TRUE
    /\ pc = "idle"
    /\ loads = 1
    /\ load_status = "returned"
    /\ response \in Requests

\* model_loader.predict(image) for the requested image
predict_distributions ==
    /\ response.op = "predict_request"
    /\ response' = [op |-> "predict", image |-> response.image,
                    call |-> PredictCall(response.image)]
    /\ UNCHANGED <<env, loader, pc, loads, load_status, created>>

\* ModelLoader._get_risk_level (model_loader.py); confidence in hundredths
\* of a percent
ModelLoader_get_risk_level(stage, confidence) ==
    IF stage = 0 THEN "Low"
    ELSE IF stage \in {1, 2}
         THEN (IF confidence > 7000 THEN "Moderate" ELSE "Low")
         ELSE "High"

\* _get_risk_level(stage, confidence) is called, in either loader
get_risk_level ==
    /\ response.op = "risk_request"
    /\ response' = [op |-> "risk", stage |-> response.stage,
                    confidence |-> response.confidence,
                    risk_level |->
                        _get_risk_level(response.stage, response.confidence),
                    old_risk_level |->
                        ModelLoader_get_risk_level(response.stage,
                                                   response.confidence)]
    /\ UNCHANGED <<env, loader, pc, loads, load_status, created>>

InferenceNext ==
    \/ predict_distributions
    \/ get_risk_level

InferenceSpec == ReadyInit /\ [][InferenceNext]_vars

----------------------------------------------------------------------------
(* CustomTrainedModel.load_model: the checkpoint is turned into parameters *)

\* entries of a parameter mapping the examined checkpoints hold at most
MaxKeys == 3

\* logger.error lists sorted(list(keys))[:10]
KeySampleCap == 10

\* A parameter name is the sequence of its dotted components. The default
\* architecture is stood for by one backbone parameter and the two of its
\* output layer fc.
DefaultKeys == { <<"conv1", "weight">>, <<"fc", "weight">>, <<"fc", "bias">> }

\* the parameters of the output layer
OutputLayerKeys == { <<"fc", "weight">>, <<"fc", "bias">> }

\* an architecture of the user's file with ten more layers
DeepKeys ==
    DefaultKeys
    \cup { <<l, "weight">> :
             l \in {"layer1", "layer2", "layer3", "layer4", "layer5",
                    "layer6", "layer7", "layer8", "layer9", "layer10"} }

\* self.model.state_dict().keys() of the architecture load_custom_architecture
\* returned
ModelKeys(architecture) ==
    IF architecture = "default" THEN DefaultKeys ELSE DeepKeys

\* the parameter names in the order sorted() puts their dotted strings
SortedKeys ==
    << <<"conv1", "weight">>, <<"fc", "bias">>, <<"fc", "weight">>,
       <<"head", "weight">>, <<"layer1", "weight">>, <<"layer10", "weight">>,
       <<"layer2", "weight">>, <<"layer3", "weight">>, <<"layer4", "weight">>,
       <<"layer5", "weight">>, <<"layer6", "weight">>, <<"layer7", "weight">>,
       <<"layer8", "weight">>, <<"layer9", "weight">> >>

\* the names a checkpoint may use: those of the default architecture, plain
\* or with the DataParallel prefix, and one the architecture does not have
SuppliedKeys ==
    DefaultKeys
    \cup { <<"module">> \o k : k \in DefaultKeys }
    \cup { <<"head", "weight">> }

\* Tensors: two of the shape the architecture expects, one of another shape
Tensors == {"w1", "w2", "misshaped"}

\* the state of a parameter no checkpoint value was copied into
DefaultInit == "init"

\* a state_dict: key and value pairs in the order of the dictionary, no key
\* twice
StateDicts ==
    { sd \in UNION { [1..n -> [key : SuppliedKeys, value : Tensors]] :
                       n \in 0..MaxKeys } :
        \A i, j \in DOMAIN sd : i # j => sd[i].key # sd[j].key }

\* What torch.load returns (line 118): a dictionary that is the parameter
\* mapping itself ("raw") or holds it under model_state_dict / state_dict, a
\* dictionary holding something that is no mapping under such a key, a
\* saved nn.Module, or any other object; or it raises.
Checkpoints ==
    [format : {"raw", "model_state_dict", "state_dict"}, state_dict : StateDicts]
    \cup [format : {"wrapped_non_mapping", "module", "other", "unreadable"},
          state_dict : {<<>>}]

\* a key that is not stripped at all
StripPrefix_keep(k) == k

\* lines 142-145: k[len('module.'):] if k.startswith('module.')
StripPrefix(k) == IF Len(k) > 1 /\ k[1] = "module" THEN Tail(k) ELSE k

\* lines 141-146: new_state, the mapping with the prefix stripped; of two
\* entries that end with the same key the later one is assigned last
Normalize(sd) ==
    [ k \in { StripPrefix(sd[i].key) : i \in DOMAIN sd } |->
        LET last == CHOOSE i \in DOMAIN sd :
                        /\ StripPrefix(sd[i].key) = k
                        /\ \A j \in DOMAIN sd :
                              StripPrefix(sd[j].key) = k => j <= i
        IN  sd[last].value ]

\* torch's Module.load_state_dict(new_state, strict): the keys the mapping
\* lacks and the keys the model lacks are an error only when strict, a
\* tensor of another shape always is
load_state_dict(model_keys, new_state, strict) ==
    LET missing_keys    == model_keys \ DOMAIN new_state
        unexpected_keys == DOMAIN new_state \ model_keys
        size_mismatch   == { k \in model_keys \cap DOMAIN new_state :
                               new_state[k] = "misshaped" }
    IN  [raised |-> \/ size_mismatch # {}
                    \/ (strict /\ (missing_keys # {} \/ unexpected_keys # {})),
         missing_keys |-> missing_keys,
         unexpected_keys |-> unexpected_keys]

\* sorted(list(keys))[:10]
Sample(keys) ==
    { SortedKeys[i] : i \in
        { i \in DOMAIN SortedKeys :
            /\ SortedKeys[i] \in keys
            /\ Cardinality({ j \in 1..i : SortedKeys[j] \in keys })
                  <= KeySampleCap } }

\* the parameters of the model after new_state was copied into it
Injected(model_keys, new_state) ==
    [ k \in model_keys |->
        IF k \in DOMAIN new_state THEN new_state[k] ELSE DefaultInit ]

\* the result of load_model: how it ended, which loads were tried, the model
\* it left, the load result logged (missing and unexpected keys) and the
\* keys the error log lists (missing and unexpected)
LoadResult(outcome, error, tried, model, parameters, load_res, listed) ==
    [outcome |-> outcome, error |-> error,
     strict_tried |-> "strict" \in tried,
     partial_tried |-> "partial" \in tried,
     model |-> model, parameters |-> parameters,
     missing_keys |-> load_res[1], unexpected_keys |-> load_res[2],
     listed_missing |-> listed[1], listed_unexpected |-> listed[2],
     model_loaded |-> outcome = "loaded"]

\* an injection that gives up when the strict load fails
InjectParameters_strict_only(model_keys, new_state) ==
    LET strict_res == load_state_dict(model_keys, new_state, TRUE)
    IN  IF ~strict_res.raised
        THEN LoadResult("loaded", "", {"strict"}, "architecture",
                        Injected(model_keys, new_state), <<{}, {}>>,
                        <<{}, {}>>)
        ELSE LoadResult("raised", "Failed to load state_dict for model",
                        {"strict"}, "architecture", <<>>, <<{}, {}>>,
                        <<Sample(strict_res.missing_keys),
                          Sample(strict_res.unexpected_keys)>>)

\* lines 148-168: the strict load, on its failure the non-strict load, on
\* its failure the error with the two key samples
InjectParameters(model_keys, new_state) ==
    LET strict_res == load_state_dict(model_keys, new_state, TRUE)
        load_res   == load_state_dict(model_keys, new_state, FALSE)
    IN  IF ~strict_res.raised
        THEN LoadResult("loaded", "", {"strict"}, "architecture",
                        Injected(model_keys, new_state), <<{}, {}>>,
                        <<{}, {}>>)
        ELSE IF ~load_res.raised
        THEN LoadResult("loaded", "", {"strict", "partial"}, "architecture",
                        Injected(model_keys, new_state),
                        <<load_res.missing_keys, load_res.unexpected_keys>>,
                        <<{}, {}>>)
        ELSE LoadResult("raised", "Failed to load state_dict for model",
                        {"strict", "partial"}, "architecture", <<>>,
                        <<{}, {}>>,
                        <<Sample(model_keys \ DOMAIN new_state),
                          Sample(DOMAIN new_state \ model_keys)>>)

\* a load_model that keeps the architecture it built when the checkpoint is
\* a saved model
CustomTrainedModel_load_model_keep_architecture(architecture, checkpoint) ==
    CASE checkpoint.format = "unreadable" ->
            LoadResult("raised", "torch.load", {}, "architecture", <<>>,
                       <<{}, {}>>, <<{}, {}>>)
      [] checkpoint.format \in {"raw", "model_state_dict", "state_dict"} ->
            InjectParameters(ModelKeys(architecture),
                             Normalize(checkpoint.state_dict))
      [] OTHER ->
            LoadResult("loaded", "", {}, "architecture",
                       [k \in ModelKeys(architecture) |-> DefaultInit],
                       <<{}, {}>>, <<{}, {}>>)

\* CustomTrainedModel.load_model, lines 110-190, for the architecture
\* load_custom_architecture returned and the checkpoint torch.load returns
CustomTrainedModel_load_model(architecture, checkpoint) ==
    CASE checkpoint.format = "unreadable" ->
            LoadResult("raised", "torch.load", {}, "architecture", <<>>,
                       <<{}, {}>>, <<{}, {}>>)
      [] checkpoint.format \in {"raw", "model_state_dict", "state_dict"} ->
            InjectParameters(ModelKeys(architecture),
                             Normalize(checkpoint.state_dict))
      [] checkpoint.format = "module" ->
            LoadResult("loaded", "", {}, "checkpoint", <<>>,
                       <<{}, {}>>, <<{}, {}>>)
      [] OTHER ->
            LoadResult("loaded", "", {}, "architecture",
                       [k \in ModelKeys(architecture) |-> DefaultInit],
                       <<{}, {}>>, <<{}, {}>>)

\* the class names load_custom_architecture looks for, in its order
CandidateNames ==
    <<"OpthalmoAI", "OpthalmoAi", "OpthalmoModel", "Model", "Net", "DRModel">>

\* What a candidate name stands for in the architecture file: nothing
\* ("absent"), a class that ModelClass() builds ("ok"), one for which
\* ModelClass() raises TypeError and ModelClass(num_classes=5) builds
\* ("needs_num_classes"), one for which both calls fail ("type_error"), and
\* one whose ModelClass() raises another exception ("raises")
ClassBehaviours ==
    {"absent", "ok", "needs_num_classes", "type_error", "raises"}

\* The architecture_file of the adapter: None, a path at which no file is,
\* a file whose import fails, or a file that gives each candidate name one
\* of the behaviours
ArchitectureFiles ==
    [status : {"none", "missing", "broken"},
     classes : {[i \in DOMAIN CandidateNames |-> "absent"]}]
    \cup [status : {"present"},
          classes : [DOMAIN CandidateNames -> ClassBehaviours]]

\* the architecture _create_default_architecture builds: a ResNet50 whose
\* fc is a single nn.Linear(in_features, 5)
DefaultArchitecture == "default"

\* load_custom_architecture, lines 49-91: the candidates are tried in order;
\* a class that builds is returned, a class that fails after a TypeError is
\* skipped, any other exception ends in the handler of line 89; without a
\* class returned the default architecture is
load_custom_architecture(file) ==
    LET decisive == { i \in DOMAIN CandidateNames :
                        file.classes[i] \in {"ok", "needs_num_classes", "raises"} }
        first == CHOOSE i \in decisive : \A j \in decisive : i <= j
    IN  IF file.status # "present" \/ decisive = {}
        THEN [raised |-> FALSE, architecture |-> DefaultArchitecture]
        ELSE IF file.classes[first] = "raises"
        THEN [raised |-> FALSE, architecture |-> DefaultArchitecture]
        ELSE [raised |-> FALSE, architecture |-> CandidateNames[first]]

\* the calls examined: load_model() of a CustomTrainedModel with either
\* architecture on any of the checkpoints
LoadRequests ==
    [op : {"load_request"}, architecture : {"default", "deep"},
     checkpoint : Checkpoints]

\* ... and load_custom_architecture() on any of the architecture files
ArchitectureRequests ==
    [op : {"architecture_request"}, file : ArchitectureFiles]

\* whether best_model.pth loads, for the call examined
ArtifactOf(request) ==
    IF request.op = "load_request"
       /\ CustomTrainedModel_load_model(request.architecture,
                                        request.checkpoint).outcome # "loaded"
    THEN "corrupt" ELSE "valid"

\* _load_custom_trained_model of the startup load is about to build the
\* custom adapter from best_model.pth
CheckpointInit ==
    /\ response \in LoadRequests \cup ArchitectureRequests
    /\ env = [custom_artifact |-> ArtifactOf(response),
              resnet50 |-> "ok", vgg16 |-> "ok", cuda |-> FALSE,
              resnet_weights |-> "absent", vgg_weights |-> "absent"]
    /\ custom_model = NONE
    /\ resnet50_model = NONE
    /\ vgg16_model = NONE
    /\ models_loaded = FALSE
    /\ use_custom_model = FALSE
    /\ ensemble_mode = TRUE
    /\ pc = "custom"
    /\ loads = 1
    /\ load_status = "running"
    /\ created = {}

\* load_custom_trained_model (lines 322-349) runs load_model()
custom_load_model ==
    /\ response.op = "load_request"
    /\ response' = [op |-> "load", architecture |-> response.architecture,
                    checkpoint |-> response.checkpoint,
                    new_state |-> Normalize(response.checkpoint.state_dict),
                    result |-> CustomTrainedModel_load_model(
                                   response.architecture, response.checkpoint)]
    /\ UNCHANGED <<env, loader, pc, loads, load_status, created>>

\* load_model() (line 114) resolves the architecture
custom_load_architecture ==
    /\ response.op = "architecture_request"
    /\ response' = [op |-> "architecture", file |-> response.file,
                    result |-> load_custom_architecture(response.file)]
    /\ UNCHANGED <<env, loader, pc, loads, load_status, created>>

CheckpointNext ==
    \/ custom_load_model
    \/ custom_load_architecture

CheckpointSpec == CheckpointInit /\ [][CheckpointNext]_vars

----------------------------------------------------------------------------
(* Specification *)

Next ==
    \/ load_models
    \/ load_custom_ok
    \/ load_custom_fail
    \/ load_ensemble_resnet_ok
    \/ load_ensemble_resnet_fail
    \/ load_ensemble_vgg_ok
    \/ load_ensemble_vgg_fail
    \/ load_fallback_ok
    \/ load_fallback_fail
    \/ load_models_return
    \/ predict
    \/ health_check
    \/ analyze_retinal_image

Spec == Init /\ [][Next]_vars

----------------------------------------------------------------------------
(* Properties *)

\* a load_models() call has ended and none is running
LoadEnded == loads >= 1 /\ pc = "idle"

\* the startup call, on the freshly constructed loader, has ended
StartupLoadEnded == loads = 1 /\ pc = "idle"

\* C1: when load_models() ran with a custom artifact that loads, it returns
\* in custom mode: use_custom_model is set, the custom adapter is the only
\* adapter the call instantiated (at startup no backbone adapter exists at
\* all), and a predict() call is answered by the custom adapter alone.
C1_CustomModeExclusive ==
    (LoadEnded /\ env.custom_artifact = "valid") =>
        /\ load_status = "returned"
        /\ models_loaded
        /\ use_custom_model
        /\ custom_model # NONE
        /\ created = {"custom"}
        /\ loads = 1 => (resnet50_model = NONE /\ vgg16_model = NONE)
        /\ response.op = "predict" =>
              /\ response.call.consulted = {"custom"}
              /\ response.call.outcome = "returned" =>
                    response.call.result.prediction_details =
                        AdapterPredict("Custom Trained OpthalmoAI",
                                       response.image.custom)

\* C1 witness: both backbones could be built, the custom artifact is valid,
\* the startup load has ended and a prediction has been returned
C1_Witness ==
    /\ StartupLoadEnded
    /\ env.custom_artifact = "valid"
    /\ env.resnet50 = "ok"
    /\ env.vgg16 = "ok"
    /\ response.op = "predict"
    /\ response.call.outcome = "returned"

\* C2: when the custom artifact exists but cannot be loaded and both
\* backbones can be built, the startup load_models() returns ready in
\* ensemble mode: use_custom_model is false, both backbone adapters are
\* instantiated, ensemble_mode is on and no custom adapter is kept.
C2_CustomFailureFallsBackToEnsemble ==
    (StartupLoadEnded /\ env.custom_artifact = "corrupt"
        /\ env.resnet50 = "ok" /\ env.vgg16 = "ok") =>
        /\ load_status = "returned"
        /\ models_loaded
        /\ ~use_custom_model
        /\ ensemble_mode
        /\ resnet50_model # NONE
        /\ vgg16_model # NONE
        /\ custom_model = NONE
        /\ created = {"resnet50", "vgg16"}

\* C2 witness: such a startup load has ended
C2_Witness ==
    /\ StartupLoadEnded
    /\ env.custom_artifact = "corrupt"
    /\ env.resnet50 = "ok"
    /\ env.vgg16 = "ok"
    /\ load_status = "returned"

\* C3: when no adapter can be instantiated (the custom artifact is absent or
\* does not load, neither backbone can be built), the startup load_models()
\* raises and models_loaded is false afterwards.
C3_TotalFailureIsFatal ==
    (StartupLoadEnded /\ env.custom_artifact # "valid"
        /\ env.resnet50 = "fail" /\ env.vgg16 = "fail") =>
        /\ load_status = "raised"
        /\ ~models_loaded
        /\ created = {}

\* C3 witness: such a startup load has ended, the custom path having failed
C3_Witness ==
    /\ StartupLoadEnded
    /\ env.custom_artifact = "corrupt"
    /\ env.resnet50 = "fail"
    /\ env.vgg16 = "fail"
    /\ load_status = "raised"

\* C4: load_models() fails fatally only on total failure: whenever at least
\* one of the three adapters can be instantiated the startup load returns
\* ready with an instantiable adapter active, and when the backbones cannot
\* both be built the one that can is the single-classifier fallback.
C4_FatalOnlyOnTotalFailure ==
    (StartupLoadEnded /\ env.resnet50 # "flaky"
        /\ (env.custom_artifact = "valid" \/ env.resnet50 = "ok"
            \/ env.vgg16 = "ok")) =>
        /\ load_status = "returned"
        /\ models_loaded
        /\ ActiveAdapters # {}
        /\ (env.custom_artifact # "valid" /\ env.resnet50 = "ok"
              /\ env.vgg16 = "fail") => ActiveAdapters = {"resnet50"}
        /\ (env.custom_artifact # "valid" /\ env.resnet50 = "fail"
              /\ env.vgg16 = "ok") => ActiveAdapters = {"vgg16"}

\* C5: with no artifact on disk (no custom weights, no fine-tuned backbone
\* weights) and the pretrained backbones available, the startup load returns
\* ready in ensemble mode with both adapters on generic pretrained weights,
\* and a predict() that returns a result returns a stage in 0..4 and a
\* confidence in [0, 100].
C5_NoArtifactsGenericEnsemble ==
    (StartupLoadEnded /\ env.custom_artifact = "absent"
        /\ env.resnet_weights = "absent" /\ env.vgg_weights = "absent"
        /\ env.resnet50 = "ok" /\ env.vgg16 = "ok") =>
        /\ load_status = "returned"
        /\ models_loaded
        /\ ~use_custom_model
        /\ ensemble_mode
        /\ custom_model = NONE
        /\ resnet50_model = PRETRAINED
        /\ vgg16_model = PRETRAINED
        /\ (response.op = "predict" /\ response.call.outcome = "returned") =>
              /\ response.call.result.stage \in 0..4
              /\ response.call.result.confidence >= 0
              /\ response.call.result.confidence <= 10000
              /\ response.call.consulted = {"resnet50", "vgg16"}

\* C5 witness: such a startup has ended on a host with cuda and a merged
\* prediction has been returned
C5_Witness ==
    /\ StartupLoadEnded
    /\ env.custom_artifact = "absent"
    /\ env.resnet_weights = "absent"
    /\ env.vgg_weights = "absent"
    /\ env.cuda
    /\ response.op = "predict"
    /\ response.call.outcome = "returned"
    /\ response.call.result.model_name = "ResNet50 + VGG16 Ensemble"

\* C6: no prediction is served while models_loaded is false: a predict()
\* made before, during or after a failed load raises the not-loaded error
\* without asking any adapter, and POST /analyze serves no result.
C6_NoPredictionBeforeLoaded ==
    /\ (response.op = "predict" /\ ~models_loaded) =>
          /\ response.call.outcome = "raised"
          /\ response.call.error = "Models not loaded"
          /\ response.call.consulted = {}
    /\ (response.op = "analyze" /\ ~models_loaded) => ~response.served

\* C6 witness: predict() is called in the middle of the startup load, when
\* the ResNet50 adapter is already set
C6_Witness ==
    /\ response.op = "predict"
    /\ ~models_loaded
    /\ pc = "ensemble_vgg"
    /\ resnet50_model # NONE
    /\ response.call.outcome = "raised"

\* C7: after a startup in which no adapter could be instantiated the health
\* report does not say healthy, and every prediction request is refused.
C7_UnavailableAfterFatalStartup ==
    (StartupLoadEnded /\ env.custom_artifact # "valid"
        /\ env.resnet50 = "fail" /\ env.vgg16 = "fail"
        /\ load_status = "raised" /\ ~models_loaded) =>
        /\ response.op = "health" => response.status # "healthy"
        /\ response.op = "predict" => response.call.outcome = "raised"
        /\ response.op = "analyze" => ~response.served

\* the recorded plan: the mode flags and the adapters predict() dispatches to
Plan == <<use_custom_model, ensemble_mode, ActiveAdapters>>

\* C8: once load_models() has completed (models_loaded is set), no step of
\* any later operation on the loader changes the recorded mode or the set
\* of active adapters.
C8_PlanImmutable == [][models_loaded => Plan' = Plan]_vars

\* C9: in ensemble mode with both adapters set, a request fails only if
\* both adapters failed; if exactly one failed, the request is answered
\* with the prediction of the other one.
C9_EnsembleToleratesOneFailure ==
    (response.op = "predict" /\ models_loaded /\ ~UsesCustom /\ ensemble_mode
        /\ resnet50_model # NONE /\ vgg16_model # NONE) =>
        /\ response.call.outcome = "raised" <=>
              (response.image.resnet50 = ERROR /\ response.image.vgg16 = ERROR)
        /\ (response.image.resnet50 = ERROR /\ response.image.vgg16 # ERROR) =>
              response.call.result.prediction_details =
                  AdapterPredict("VGG16", response.image.vgg16)
        /\ (response.image.resnet50 # ERROR /\ response.image.vgg16 = ERROR) =>
              response.call.result.prediction_details =
                  AdapterPredict("ResNet50", response.image.resnet50)

\* C9 witness: in ensemble mode ResNet50 failed on the image, VGG16 did
\* not, and a result has been returned
C9_Witness ==
    /\ response.op = "predict"
    /\ models_loaded
    /\ ~UsesCustom
    /\ ensemble_mode
    /\ resnet50_model # NONE
    /\ vgg16_model # NONE
    /\ response.image.resnet50 = ERROR
    /\ response.image.vgg16 # ERROR
    /\ response.call.outcome = "returned"

\* C10: when none of the adapters asked produces a prediction, predict()
\* raises (the combiner's "No successful predictions from any model", or
\* "Prediction failed" for the custom adapter) and returns no result.
C10_NoSuccessRaises ==
    (response.op = "predict" /\ models_loaded
        /\ \A a \in ActiveAdapters : response.image[a] = ERROR) =>
        /\ response.call.outcome = "raised"
        /\ response.call.error =
              IF UsesCustom THEN "Prediction failed"
              ELSE "No successful predictions from any model"

\* C10 witness: in ensemble mode both adapters were asked and both failed
C10_Witness ==
    /\ response.op = "predict"
    /\ models_loaded
    /\ ActiveAdapters = {"resnet50", "vgg16"}
    /\ response.image.resnet50 = ERROR
    /\ response.image.vgg16 = ERROR
    /\ response.call.outcome = "raised"

----------------------------------------------------------------------------
(* Properties of the combiner and of the clinical mapping *)

\* a predict() call has returned a result
PredictReturned == response.op = "predict" /\ response.call.outcome = "returned"

\* ... and the result is the merge of two predictions
MergeReturned ==
    /\ PredictReturned
    /\ response.call.result.model_name = "ResNet50 + VGG16 Ensemble"

\* the distribution, in hundredths of a percent, an adapter returns for a
\* softmax output
Percentages(outcome) == [c \in Stages |-> Round2(outcome[c + 1])]

\* C11: when exactly one adapter produced a prediction (only ResNet50 is
\* active, or the other adapter failed on the image), the result's
\* distribution, winning class and confidence are that adapter's own: the
\* prediction is the adapter's dictionary, unchanged.
C11_SingleSurvivorUnchanged ==
    (PredictReturned /\ ~UsesCustom) =>
        LET out_resnet == response.image.resnet50
            out_vgg    == response.image.vgg16
            details    == response.call.result.prediction_details
            resnet_ok  == resnet50_model # NONE /\ out_resnet # ERROR
            vgg_ok     == vgg16_model # NONE /\ ensemble_mode /\ out_vgg # ERROR
        IN  /\ (resnet_ok /\ ~vgg_ok) =>
                  /\ details = AdapterPredict("ResNet50", out_resnet)
                  /\ details.class_probabilities = Percentages(out_resnet)
                  /\ response.call.result.stage = Argmax(out_resnet)
                  /\ response.call.result.confidence =
                        Round2(out_resnet[Argmax(out_resnet) + 1])
            /\ (vgg_ok /\ ~resnet_ok) =>
                  /\ details = AdapterPredict("VGG16", out_vgg)
                  /\ details.class_probabilities = Percentages(out_vgg)
                  /\ response.call.result.stage = Argmax(out_vgg)
                  /\ response.call.result.confidence =
                        Round2(out_vgg[Argmax(out_vgg) + 1])

\* C11 witness: in the single-classifier fallback a prediction on an image
\* with an uneven distribution has been returned
C11_Witness ==
    /\ PredictReturned
    /\ ~UsesCustom
    /\ vgg16_model = NONE
    /\ response.image.resnet50 = LeanLate
    /\ response.call.result.stage = 2

\* C12: the merged distribution, winning class and confidence do not depend
\* on which adapter's prediction comes first, and every class's merged value
\* is the equally weighted mean of the two adapters' values (to the rounding
\* of a hundredth of a percent).
C12_MergeOrderIrrelevant ==
    MergeReturned =>
        LET resnet_result == AdapterPredict("ResNet50", response.image.resnet50)
            vgg_result    == AdapterPredict("VGG16", response.image.vgg16)
            details       == response.call.result.prediction_details
            swapped       == EnsembleMerge(vgg_result, resnet_result)
        IN  /\ details.class_probabilities = swapped.class_probabilities
            /\ details.predicted_class = swapped.predicted_class
            /\ details.confidence = swapped.confidence
            /\ \A c \in Stages :
                  LET twice == resnet_result.class_probabilities[c]
                               + vgg_result.class_probabilities[c]
                  IN  /\ 2 * details.class_probabilities[c] <= twice + 1
                      /\ 2 * details.class_probabilities[c] >= twice - 1

\* C12 witness: two adapters that voted for different classes were merged
C12_Witness ==
    /\ MergeReturned
    /\ response.image.resnet50 = NoDR
    /\ response.image.vgg16 = Severe
    /\ response.call.result.stage = 0

\* C13: when two adapters succeed the winning class has a mean probability
\* at least that of every other class, and the confidence is that mean as a
\* percentage (to the rounding of a hundredth), within [0, 100].
C13_WinnerMaximisesMean ==
    MergeReturned =>
        LET p1 == Percentages(response.image.resnet50)
            p2 == Percentages(response.image.vgg16)
            winner == response.call.result.stage
            confidence == response.call.result.confidence
        IN  /\ winner \in Stages
            /\ \A d \in Stages : p1[d] + p2[d] <= p1[winner] + p2[winner]
            /\ 2 * confidence <= p1[winner] + p2[winner] + 1
            /\ 2 * confidence >= p1[winner] + p2[winner] - 1
            /\ confidence >= 0
            /\ confidence <= 10000
            /\ response.call.result.prediction_details.predicted_class = winner
            /\ response.call.result.prediction_details.confidence = confidence

\* C13 witness: the merged winner is the class of the first adapter, with
\* the mean of 71.00 and 30.00 percent as confidence
C13_Witness ==
    /\ MergeReturned
    /\ response.image.resnet50 = Moderate
    /\ response.image.vgg16 = Severe
    /\ response.call.result.stage = 2
    /\ response.call.result.confidence = 5050

\* C14: when several classes share the largest mean probability, the merged
\* winner is the lowest stage index among them.
C14_TieBreakLowestStage ==
    MergeReturned =>
        LET p1 == Percentages(response.image.resnet50)
            p2 == Percentages(response.image.vgg16)
            winner == response.call.result.stage
        IN  \A d \in Stages :
                (\A e \in Stages : p1[e] + p2[e] <= p1[d] + p2[d]) => winner <= d

\* the sum of a five-class distribution
SumOf(probs) == probs[0] + probs[1] + probs[2] + probs[3] + probs[4]

\* C15: every class distribution returned by an adapter or by the combiner
\* has non-negative values that sum to 100 percent.
C15_DistributionSumsToOne ==
    PredictReturned =>
        LET probs == response.call.result.prediction_details.class_probabilities
        IN  /\ \A c \in Stages : probs[c] >= 0
            /\ SumOf(probs) = 10000

\* the risk level the rule of the specification gives
RiskLevelRule(stage, confidence) ==
    CASE stage = 0 -> "Low"
      [] stage \in {1, 2} /\ confidence > 7000 -> "Moderate"
      [] stage \in {1, 2} /\ confidence <= 7000 -> "Low"
      [] stage \in {3, 4} -> "High"

\* C16: for every stage 0..4 and every confidence 0..100 the risk level is
\* Low for stage 0, Moderate for stages 1 and 2 when the confidence is
\* strictly above 70 and Low otherwise, High for stages 3 and 4; both
\* loaders compute it so, and a returned result carries it.
C16_RiskLevelRule ==
    /\ response.op = "risk" =>
          /\ response.risk_level =
                RiskLevelRule(response.stage, response.confidence)
          /\ response.old_risk_level = response.risk_level
    /\ PredictReturned =>
          response.call.result.risk_level =
              RiskLevelRule(response.call.result.stage,
                            response.call.result.confidence)

\* C16 witness: stage 2 at a confidence of exactly 70 percent gave Low
C16_Witness ==
    /\ response.op = "risk"
    /\ response.stage = 2
    /\ response.confidence = 7000
    /\ response.risk_level = "Low"

\* the follow-up months the table of the specification allows for a stage
FollowUpTable(stage) ==
    CASE stage = 0 -> {12}
      [] stage = 1 -> {12}
      [] stage = 2 -> {6}
      [] stage = 3 -> {2, 3}
      [] stage = 4 -> {1}

\* C17: the follow-up months of a returned prediction are those of the
\* table for the result's winning stage, in every mode.
C17_FollowUpByWinningStage ==
    PredictReturned =>
        response.call.result.prediction_details.follow_up_months
            \in FollowUpTable(response.call.result.stage)

----------------------------------------------------------------------------
(* Properties of the checkpoint loading *)

\* load_model() has run on a checkpoint that holds a parameter mapping
MappingLoaded ==
    /\ response.op = "load"
    /\ response.checkpoint.format \in {"raw", "model_state_dict", "state_dict"}

\* every key of the mapping carries the module. prefix
AllPrefixed(sd) ==
    /\ Len(sd) > 0
    /\ \A i \in DOMAIN sd : Len(sd[i].key) > 1 /\ sd[i].key[1] = "module"

\* the same mapping without the prefix
Unprefixed(sd) ==
    [ i \in DOMAIN sd |-> [key |-> Tail(sd[i].key), value |-> sd[i].value] ]

\* C18: a parameter mapping whose keys all carry the module. prefix is
\* normalized to the keys and values of the same mapping without the prefix
\* (whose keys are distinct and unprefixed), and load_model() ends on it as
\* it ends on the mapping without the prefix.
C18_PrefixedLoadsAsUnprefixed ==
    (MappingLoaded /\ AllPrefixed(response.checkpoint.state_dict)) =>
        LET sd    == response.checkpoint.state_dict
            plain == Unprefixed(sd)
        IN  /\ response.new_state = Normalize(plain)
            /\ DOMAIN response.new_state = { plain[i].key : i \in DOMAIN plain }
            /\ \A i \in DOMAIN plain :
                  response.new_state[plain[i].key] = plain[i].value
            /\ response.result =
                  CustomTrainedModel_load_model(
                      response.architecture,
                      [format |-> response.checkpoint.format,
                       state_dict |-> plain])

\* C18 witness: a prefixed mapping with every parameter of the default
\* architecture was loaded by the strict load
C18_Witness ==
    /\ MappingLoaded
    /\ AllPrefixed(response.checkpoint.state_dict)
    /\ response.architecture = "default"
    /\ DOMAIN response.new_state = DefaultKeys
    /\ response.result.outcome = "loaded"
    /\ ~response.result.partial_tried
    /\ response.result.parameters[<<"fc", "weight">>] = "w2"

\* C19: a mapping that lacks some expected keys but has the output-layer
\* keys (the tensors it has being of the expected shapes) fails the strict
\* load, is loaded by the non-strict load without raising, and the load
\* result that is logged has a non-empty set of missing keys; the non-strict
\* load is only ever tried after the strict load has raised.
C19_PartialLoadAfterStrictFailure ==
    MappingLoaded =>
        LET model_keys == ModelKeys(response.architecture)
            new_state  == response.new_state
            missing    == model_keys \ DOMAIN new_state
            fits       == \A k \in model_keys \cap DOMAIN new_state :
                              new_state[k] # "misshaped"
        IN  /\ (missing # {} /\ OutputLayerKeys \subseteq DOMAIN new_state
                  /\ fits) =>
                  /\ response.result.strict_tried
                  /\ response.result.partial_tried
                  /\ response.result.outcome = "loaded"
                  /\ response.result.model_loaded
                  /\ response.result.missing_keys = missing
                  /\ response.result.missing_keys # {}
                  /\ \A k \in missing :
                        response.result.parameters[k] = DefaultInit
                  /\ \A k \in model_keys \ missing :
                        response.result.parameters[k] = new_state[k]
            /\ response.result.partial_tried =>
                  /\ response.result.strict_tried
                  /\ missing # {} \/ DOMAIN new_state \ model_keys # {}
                       \/ ~fits

\* C19 witness: the mapping holds the two output-layer parameters only and
\* was loaded with the backbone parameter reported missing
C19_Witness ==
    /\ MappingLoaded
    /\ response.architecture = "default"
    /\ DOMAIN response.new_state = OutputLayerKeys
    /\ response.result.outcome = "loaded"
    /\ response.result.partial_tried
    /\ response.result.missing_keys = { <<"conv1", "weight">> }

\* C20: a mapping that does not hold the output-layer parameters makes
\* load_model() raise, with at most 10 missing and at most 10 unexpected
\* keys listed; it never ends loaded.
C20_NoOutputLayerIsIncompatible ==
    (MappingLoaded
        /\ ~(OutputLayerKeys \subseteq DOMAIN response.new_state)) =>
        /\ response.result.outcome = "raised"
        /\ ~response.result.model_loaded
        /\ Cardinality(response.result.listed_missing) <= 10
        /\ Cardinality(response.result.listed_unexpected) <= 10

\* two entries of the mapping end with the same key once the prefix is
\* stripped
Collides(sd) ==
    \E i, j \in DOMAIN sd :
        i # j /\ StripPrefix(sd[i].key) = StripPrefix(sd[j].key)

\* C21: when two keys of the mapping become equal after the module. prefix
\* is stripped, load_model() raises; it does not end loaded with one of the
\* two values kept and the other dropped.
C21_CollisionSurfacesError ==
    (MappingLoaded /\ Collides(response.checkpoint.state_dict)) =>
        /\ response.result.outcome = "raised"
        /\ ~response.result.model_loaded

\* C22: when the checkpoint is no mapping but a saved model, load_model()
\* takes the checkpoint itself as its model in place of the architecture
\* built before, tries neither the strict nor the non-strict load, and ends
\* loaded.
C22_ModelObjectUsedAsIs ==
    (response.op = "load" /\ response.checkpoint.format = "module") =>
        /\ response.result.outcome = "loaded"
        /\ response.result.model = "checkpoint"
        /\ ~response.result.strict_tried
        /\ ~response.result.partial_tried
        /\ response.result.model_loaded

\* C22 witness: a saved model was loaded although another architecture had
\* been built from the user's file
C22_Witness ==
    /\ response.op = "load"
    /\ response.checkpoint.format = "module"
    /\ response.architecture = "deep"
    /\ response.result.model = "checkpoint"

\* C23: a checkpoint that gives neither a parameter mapping nor a saved
\* model (an object that is neither, or a dictionary whose model_state_dict
\* / state_dict entry is no mapping) makes load_model() raise the
\* unrecognized-format error and leaves model_loaded false.
C23_UnrecognizedFormatRaises ==
    (response.op = "load"
        /\ response.checkpoint.format \in {"other", "wrapped_non_mapping"}) =>
        /\ response.result.outcome = "raised"
        /\ response.result.error = "Unrecognized checkpoint format"
        /\ ~response.result.model_loaded

\* the candidates of a file that can be instantiated, with no argument or
\* with num_classes
Instantiable(file) ==
    { i \in DOMAIN CandidateNames :
        file.status = "present"
        /\ file.classes[i] \in {"ok", "needs_num_classes"} }

\* C24: load_custom_architecture never raises; when the file defines a
\* candidate class that can be instantiated the first such class in the
\* candidate order is the architecture, and the default architecture is in
\* every other case.
C24_ArchitectureResolution ==
    response.op = "architecture" =>
        LET usable == Instantiable(response.file)
        IN  /\ ~response.result.raised
            /\ usable = {} =>
                  response.result.architecture = DefaultArchitecture
            /\ usable # {} =>
                  response.result.architecture =
                      CandidateNames[CHOOSE i \in usable :
                                         \A j \in usable : i <= j]

----------------------------------------------------------------------------
(* Further properties of the loader *)

\* C25: a backbone adapter built with a fine-tuned weights path reads that
\* file whether or not cuda is available: it ends with the fine-tuned
\* weights when the file is there and loads, and with the generic
\* pretrained weights when the file is absent or does not load.
C25_FineTunedWeightsAttempted ==
    /\ pc = "ensemble_vgg" =>
          resnet50_model =
              IF env.resnet_weights = "valid" THEN FINETUNED ELSE PRETRAINED
    /\ (pc = "loaded" /\ "vgg16" \in created) =>
          vgg16_model =
              IF env.vgg_weights = "valid" THEN FINETUNED ELSE PRETRAINED

\* C26: the clinical annotation is a lookup on the winning stage and the
\* confidence alone: a returned result carries the stage description, the
\* risk level and the recommendation list of every other result of the same
\* stage and confidence, whichever adapter or combination produced it.
C26_AnnotationIndependentOfMode ==
    PredictReturned =>
        LET result == response.call.result
        IN  \A model_name \in {"Custom Trained OpthalmoAI", "ResNet50", "VGG16"} :
            \A outcome \in {NoDR, Moderate, Severe} :
                LET other == AnalysisResult(AdapterPredict(model_name, outcome))
                IN  (other.stage = result.stage
                     /\ other.confidence = result.confidence)
                    => /\ other.stage_description = result.stage_description
                       /\ other.risk_level = result.risk_level
                       /\ other.recommendations = result.recommendations

\* C27: predict() is read-only on the loader: a call of predict(), made
\* directly or by the analysis endpoint, leaves models_loaded,
\* use_custom_model, ensemble_mode and the three adapter references as they
\* were, whether it returns a result or raises. (Every other step clears
\* or replaces the response, so a step that ends with the response of a
\* prediction or an analysis is a step of predict or of the endpoint.)
C27_PredictReadOnly ==
    [][response'.op \in {"predict", "analyze"} => loader' = loader]_vars

\* a request failed on a ready loader, which is still ready
C27_Witness ==
    /\ response.op = "predict"
    /\ response.call.outcome = "raised"
    /\ response.call.consulted # {}
    /\ models_loaded

\* C28: whenever load_models() returns without raising, models_loaded is
\* true, whatever adapters could and could not be instantiated in the
\* custom, ensemble and fallback attempts.
C28_ReturnedLoadIsReady ==
    (LoadEnded /\ load_status = "returned") => models_loaded

\* C29: in every state of the loader in which models_loaded is true, the
\* adapter predict() dispatches to exists: in custom mode the custom adapter
\* is set and loaded; otherwise the ResNet50 adapter is set, and the VGG16
\* adapter too when ensemble_mode is true.
C29_ReadyLoaderHasItsAdapters ==
    models_loaded =>
        /\ use_custom_model => custom_model = TRAINED
        /\ ~use_custom_model =>
              /\ resnet50_model # NONE
              /\ ensemble_mode => vgg16_model # NONE

\* a ready loader in the single-classifier fallback: ensemble_mode is off
\* and only the ResNet50 adapter is set
C29_Witness ==
    /\ models_loaded
    /\ ~use_custom_model
    /\ ~ensemble_mode
    /\ resnet50_model # NONE
    /\ vgg16_model = NONE

\* C30: in every returned result, in every mode, the urgent-care flag is
\* true exactly when the winning stage is 3 or 4, which is exactly when the
\* risk level is High.
C30_UrgentIffSevereIffHigh ==
    PredictReturned =>
        LET result == response.call.result
            urgent == result.prediction_details.requires_urgent_care
        IN  /\ urgent <=> result.stage \in {3, 4}
            /\ result.stage \in {3, 4} <=> result.risk_level = "High"

\* a merged result of stage 3 or 4 at a confidence of at most 70 percent,
\* flagged urgent and of high risk
C30_Witness ==
    /\ MergeReturned
    /\ response.call.result.stage \in {3, 4}
    /\ response.call.result.confidence <= 7000
    /\ response.call.result.prediction_details.requires_urgent_care
    /\ response.call.result.risk_level = "High"

====
